---- MODULE Spec2Model ----
(***************************************************************************)
(* Model of neuron_explainer/api_client.py: the exponential_backoff        *)
(* decorator (f_retry), the is_api_error classifier and                    *)
(* ApiClient.make_request with its semaphore gate and in-memory cache.     *)
(* Every make_request call is an asyncio coroutine; an action is the code  *)
(* one call runs between two suspension points of the event loop.          *)
(***************************************************************************)
EXTENDS Integers, Sequences, FiniteSets, TLC

\* ---------------------------------------------------------------- bounds
NumCalls == 3
MaxFailures == 1
MaxConcurrent == 2
JitterSteps == 2

\* ------------------------------------------- exponential_backoff policy
\* delays are in milliseconds, jitter in percent
init_delay_s == 1000
max_delay_s == 10000
max_tries == 200
backoff_multiplier == 2
jitter == 20

Calls == 1..NumCalls
\* response.json() of the 2xx response call c receives: every round trip
\* returns a body of its own, named after the call that received it
ResponseBody(c) == c
\* a key that is not in the dict
NoEntry == 0
\* max_concurrent = None: the client has no semaphore
None == 0

\* ------------------------------------------------------------- requests
\* kwargs of a call: the caller's fields in the order they were supplied
PromptFirst == << <<"prompt", "why">>, <<"max_tokens", "9">> >>
TokensFirst == << <<"max_tokens", "9">>, <<"prompt", "why">> >>
ChatFields == << <<"messages", "hello">> >>
Payloads == {PromptFirst, TokensFirst, ChatFields}

\* python dict equality: same names bound to the same values
SameFields(p, q) == {p[n] : n \in DOMAIN p} = {q[n] : n \in DOMAIN q}

RECURSIVE dumps_items(_)
dumps_items(kwargs) ==
    IF kwargs = << >> THEN << >>
    ELSE << Head(kwargs)[1], ":", Head(kwargs)[2] >>
         \o (IF Len(kwargs) > 1 THEN << "," >> ELSE << >>)
         \o dumps_items(Tail(kwargs))

\* orjson.dumps(kwargs): the fields are written in insertion order
orjson_dumps(kwargs) == << "{" >> \o dumps_items(kwargs) \o << "}" >>

\* self.model_name
model_name == "gpt-3.5-turbo"

HasField(kwargs, name) == \E n \in DOMAIN kwargs : kwargs[n][1] = name

\* kwargs[name] = value on a python dict: a present field keeps its place
SetItem(kwargs, name, value) ==
    IF HasField(kwargs, name)
    THEN [n \in DOMAIN kwargs |->
            IF kwargs[n][1] = name THEN << name, value >> ELSE kwargs[n]]
    ELSE Append(kwargs, << name, value >>)

\* the JSON body posted: the model name and, in JSON mode, the response format
\* are added to the fields
Inject(kwargs, json_mode) ==
    LET with_model == SetItem(kwargs, "model", model_name)
    IN  IF json_mode THEN SetItem(with_model, "response_format", "json_object")
        ELSE with_model

\* variant: the test looks for a field named "message"
Endpoint_Typo(kwargs) ==
    IF HasField(kwargs, "message") THEN "/chat/completions" ELSE "/completions"

\* the path appended to base_api_url
Endpoint(kwargs) ==
    IF HasField(kwargs, "messages") THEN "/chat/completions" ELSE "/completions"

\* the keys the dict can hold: the serialized fields, as supplied or as posted
Keys ==
    {orjson_dumps(p) : p \in Payloads}
        \cup {orjson_dumps(Inject(p, m)) : p \in Payloads, m \in BOOLEAN}

\* ------------------------------------------------------------- failures
Statuses == {400, 404, 415, 500}
ErrorBodies ==
    { [parsable |-> TRUE, type |-> "idempotency_error"],
      [parsable |-> TRUE, type |-> "invalid_request_error"],
      [parsable |-> TRUE, type |-> "none"],
      [parsable |-> FALSE, type |-> "none"] }

MkErr(k, s, b) == [kind |-> k, status |-> s, parsable |-> b.parsable, type |-> b.type]
NoBody == [parsable |-> FALSE, type |-> "none"]
NoErr == MkErr("none", 0, NoBody)

StatusErrors == {MkErr("HTTPStatusError", s, b) : s \in Statuses, b \in ErrorBodies}
OtherErrors ==
    {MkErr(k, 0, NoBody) : k \in {"ConnectError", "TimeoutException", "ReadError", "Exception"}}
Failures == StatusErrors \cup OtherErrors

\* the exception response.json() / .get raises inside is_api_error
ClassifierError == MkErr("JSONDecodeError", 0, NoBody)

\* variant: 404 is missing from the list of invalid-request statuses
is_api_error_Without404(err) ==
    IF err.kind = "HTTPStatusError"
    THEN IF ~err.parsable THEN "raises"
         ELSE IF err.status \in {400, 415}
              THEN IF err.type = "idempotency_error" THEN "True" ELSE "False"
              ELSE "True"
    ELSE "True"

\* is_api_error: "True" retry, "False" do not retry, "raises" when the body
\* of the error response is not a JSON object carrying an error object
is_api_error(err) ==
    IF err.kind = "HTTPStatusError"
    THEN IF ~err.parsable THEN "raises"
         ELSE IF err.status \in {400, 404, 415}
              THEN IF err.type = "idempotency_error" THEN "True" ELSE "False"
              ELSE "True"
    ELSE "True"

\* ---------------------------------------------------------------- state
\* cache_enabled, max_concurrent : the constructor's arguments
\* _cache                        : self._cache, key -> response body
\* _value, _waiters              : the counter and the FIFO queue of the semaphore
\* holders                       : the calls inside "async with" holding a slot
\* calls                         : the local state of every make_request call
\* stores                        : number of writes to the cache so far
\* budget                        : failures the remote may still produce
VARIABLES cache_enabled, max_concurrent, _cache, _value, _waiters, holders,
          calls, stores, budget

vars == << cache_enabled, max_concurrent, _cache, _value, _waiters, holders,
           calls, stores, budget >>

NewCall ==
    [ pc |-> "idle", payload |-> << >>, json_mode |-> FALSE, timeout_seconds |-> None,
      kwargs |-> << >>, key |-> << >>, url |-> "", sent |-> << >>,
      i |-> 0, delay_s |-> init_delay_s,
      slept |-> 0, sleeps |-> 0, dispatches |-> 0,
      waited |-> FALSE, result |-> NoEntry, from_cache |-> FALSE,
      stored_at |-> 0, err |-> NoErr, raised |-> NoErr, before |-> {} ]

InitClient ==
    /\ cache_enabled \in BOOLEAN
    /\ max_concurrent \in {None} \cup 1..MaxConcurrent
    /\ _cache = [k \in Keys |-> NoEntry]
    /\ _value = max_concurrent
    /\ _waiters = << >>
    /\ holders = {}
    /\ calls = [c \in Calls |-> NewCall]
    /\ stores = 0

Init == InitClient /\ budget = MaxFailures

Gated == max_concurrent # None

\* variant: acquire never blocks
locked_NeverBlocks == FALSE

\* Semaphore.locked(): no free slot, or somebody is already queued
locked == _value = 0 \/ _waiters # << >>

\* j is a possible value of uniform(d * (1 - jitter), d * (1 + jitter))
uniform(d, j) == d * (100 - jitter) <= j * 100 /\ j * 100 <= d * (100 + jitter)

\* sample points of that interval, both ends included
Jittered(d) ==
    { (d * (100 - jitter)) \div 100 + (k * ((d * 2 * jitter) \div 100)) \div JitterSteps
        : k \in 0..JitterSteps }

\* variant: the delay is not capped at max_delay_s
NextDelay_NoCap(d) == d * backoff_multiplier

NextDelay(d) ==
    IF d * backoff_multiplier < max_delay_s THEN d * backoff_multiplier ELSE max_delay_s

\* variant: the key is computed after the model name and the response format
\* were put into kwargs
CacheKey_AfterInjection(cl) == orjson_dumps(Inject(cl.kwargs, cl.json_mode))

\* key = orjson.dumps(kwargs) on the kwargs make_request was invoked with
CacheKey(cl) == orjson_dumps(cl.kwargs)

\* make_request is entered: nothing is posted yet in this attempt
Entered(cl) == [cl EXCEPT !.key = CacheKey(cl), !.url = "", !.sent = << >>]

\* variant: make_request works on the dict of f_retry, not on a copy of its own
Post_InPlace(cl) ==
    [cl EXCEPT !.pc = "flight", !.dispatches = @ + 1,
               !.url = Endpoint(cl.kwargs),
               !.sent = Inject(cl.kwargs, cl.json_mode),
               !.kwargs = Inject(cl.kwargs, cl.json_mode)]

\* inside the "async with": the url is chosen, the model name and the response
\* format are put into make_request's own kwargs, and that dict is posted; the
\* kwargs of f_retry stay as the caller supplied them
Post(cl) ==
    [cl EXCEPT !.pc = "flight", !.dispatches = @ + 1,
               !.url = Endpoint(cl.kwargs),
               !.sent = Inject(cl.kwargs, cl.json_mode)]

\* variant: the lookup is done after the request was posted
BeginAttempt_LookupAfterPost(c, cl) ==
    IF cache_enabled /\ _cache[CacheKey(cl)] # NoEntry
    THEN /\ calls' = [calls EXCEPT ![c] =
                [Entered(cl) EXCEPT !.pc = "ok", !.result = _cache[CacheKey(cl)],
                           !.from_cache = TRUE, !.waited = FALSE, !.err = NoErr,
                           !.dispatches = @ + 1]]
         /\ UNCHANGED << _value, _waiters, holders >>
    ELSE IF Gated /\ locked
    THEN /\ calls' = [calls EXCEPT ![c] =
                [Entered(cl) EXCEPT !.pc = "wait", !.waited = TRUE]]
         /\ _waiters' = Append(_waiters, c)
         /\ UNCHANGED << _value, holders >>
    ELSE /\ calls' = [calls EXCEPT ![c] = [Post(Entered(cl)) EXCEPT !.waited = FALSE]]
         /\ _value' = IF Gated THEN _value - 1 ELSE _value
         /\ holders' = IF Gated THEN holders \cup {c} ELSE holders
         /\ UNCHANGED _waiters

\* one invocation of make_request by f_retry, up to its first suspension:
\* cache lookup, then the gate
BeginAttempt(c, cl) ==
    IF cache_enabled /\ _cache[CacheKey(cl)] # NoEntry
    THEN /\ calls' = [calls EXCEPT ![c] =
                [Entered(cl) EXCEPT !.pc = "ok", !.result = _cache[CacheKey(cl)],
                           !.from_cache = TRUE, !.waited = FALSE, !.err = NoErr]]
         /\ UNCHANGED << _value, _waiters, holders >>
    ELSE IF Gated /\ locked
    THEN /\ calls' = [calls EXCEPT ![c] =
                [Entered(cl) EXCEPT !.pc = "wait", !.waited = TRUE]]
         /\ _waiters' = Append(_waiters, c)
         /\ UNCHANGED << _value, holders >>
    ELSE /\ calls' = [calls EXCEPT ![c] = [Post(Entered(cl)) EXCEPT !.waited = FALSE]]
         /\ _value' = IF Gated THEN _value - 1 ELSE _value
         /\ holders' = IF Gated THEN holders \cup {c} ELSE holders
         /\ UNCHANGED _waiters

\* variant: delay_s lives in the decorator and is shared by all calls
Start_SharedDelay(c, p, m, t) ==
    /\ calls[c].pc = "idle"
    /\ \A d \in Calls : d < c => calls[d].pc # "idle"
    /\ BeginAttempt(c, [calls[c] EXCEPT
            !.payload = p, !.json_mode = m, !.timeout_seconds = t, !.kwargs = p,
            !.i = 0,
            !.delay_s = IF c > 1 THEN calls[c - 1].delay_s ELSE init_delay_s,
            !.before = {d \in Calls : calls[d].pc = "ok"}])
    /\ UNCHANGED << cache_enabled, max_concurrent, _cache, stores, budget >>

\* a caller invokes client.make_request(timeout_seconds=t, json_mode=m, **p)
Start(c, p, m, t) ==
    /\ calls[c].pc = "idle"
    /\ \A d \in Calls : d < c => calls[d].pc # "idle"
    /\ BeginAttempt(c, [calls[c] EXCEPT
            !.payload = p, !.json_mode = m, !.timeout_seconds = t, !.kwargs = p,
            !.i = 0, !.delay_s = init_delay_s,
            !.before = {d \in Calls : calls[d].pc = "ok"}])
    /\ UNCHANGED << cache_enabled, max_concurrent, _cache, stores, budget >>

\* a queued call is woken by a release and takes the slot
Admit(c) ==
    /\ calls[c].pc = "wait"
    /\ _waiters # << >> /\ Head(_waiters) = c
    /\ _value > 0
    /\ _value' = _value - 1
    /\ _waiters' = Tail(_waiters)
    /\ holders' = holders \cup {c}
    /\ calls' = [calls EXCEPT ![c] = Post(calls[c])]
    /\ UNCHANGED << cache_enabled, max_concurrent, _cache, stores, budget >>

\* leaving the AsyncExitStack: the semaphore is released
Release(c) ==
    /\ _value' = IF Gated THEN _value + 1 ELSE _value
    /\ holders' = holders \ {c}
    /\ UNCHANGED _waiters

\* variant: an entry already in the cache is not overwritten
Succeed_FirstWriteWins(c) ==
    /\ calls[c].pc = "flight"
    /\ Release(c)
    /\ _cache' = IF cache_enabled /\ _cache[calls[c].key] = NoEntry
                 THEN [_cache EXCEPT ![calls[c].key] = ResponseBody(c)] ELSE _cache
    /\ stores' = IF cache_enabled THEN stores + 1 ELSE stores
    /\ calls' = [calls EXCEPT ![c] =
            [@ EXCEPT !.pc = "ok", !.result = ResponseBody(c), !.from_cache = FALSE, !.err = NoErr,
                      !.stored_at = IF cache_enabled THEN stores + 1 ELSE 0]]
    /\ UNCHANGED << cache_enabled, max_concurrent, budget >>

\* the post returns a 2xx response with a JSON body
Succeed(c) ==
    /\ calls[c].pc = "flight"
    /\ Release(c)
    /\ _cache' = IF cache_enabled THEN [_cache EXCEPT ![calls[c].key] = ResponseBody(c)] ELSE _cache
    /\ stores' = IF cache_enabled THEN stores + 1 ELSE stores
    /\ calls' = [calls EXCEPT ![c] =
            [@ EXCEPT !.pc = "ok", !.result = ResponseBody(c), !.from_cache = FALSE, !.err = NoErr,
                      !.stored_at = IF cache_enabled THEN stores + 1 ELSE 0]]
    /\ UNCHANGED << cache_enabled, max_concurrent, budget >>

\* the except clause of f_retry
Handler(c, err, j) ==
    LET cl == calls[c]
        verdict == is_api_error(err)
    IN  IF verdict = "raises"
        THEN calls' = [calls EXCEPT ![c] =
                [cl EXCEPT !.pc = "raised", !.err = err, !.raised = ClassifierError]]
        ELSE IF verdict = "False" \/ cl.i = max_tries - 1
        THEN calls' = [calls EXCEPT ![c] =
                [cl EXCEPT !.pc = "raised", !.err = err, !.raised = err]]
        ELSE /\ uniform(cl.delay_s, j)
             /\ calls' = [calls EXCEPT ![c] =
                    [cl EXCEPT !.pc = "sleep", !.err = err,
                               !.slept = j, !.sleeps = @ + 1]]

\* variant: the slot is kept while f_retry handles the failure and sleeps
Fail_KeepsSlot(c, err, j) ==
    /\ calls[c].pc = "flight"
    /\ budget > 0
    /\ budget' = budget - 1
    /\ Handler(c, err, j)
    /\ UNCHANGED << cache_enabled, max_concurrent, _cache, stores,
                    _value, _waiters, holders >>

\* variant: the body of the response is stored before its status is checked
Fail_StoresBody(c, err, j) ==
    /\ calls[c].pc = "flight"
    /\ budget > 0
    /\ budget' = budget - 1
    /\ Release(c)
    /\ Handler(c, err, j)
    /\ _cache' = IF cache_enabled
                 THEN [_cache EXCEPT ![calls[c].key] = ResponseBody(c)] ELSE _cache
    /\ UNCHANGED << cache_enabled, max_concurrent, stores >>

\* the attempt fails with err and, when f_retry goes on, random.uniform draws j:
\* the slot is released while the exception leaves make_request, then f_retry
\* handles it
Fail(c, err, j) ==
    /\ calls[c].pc = "flight"
    /\ budget > 0
    /\ budget' = budget - 1
    /\ Release(c)
    /\ Handler(c, err, j)
    /\ UNCHANGED << cache_enabled, max_concurrent, _cache, stores >>

\* asyncio.sleep returns: delay_s grows, the loop calls make_request again
Wake(c) ==
    /\ calls[c].pc = "sleep"
    /\ BeginAttempt(c, [calls[c] EXCEPT
            !.i = @ + 1, !.delay_s = NextDelay(@)])
    /\ UNCHANGED << cache_enabled, max_concurrent, _cache, stores, budget >>

\* concurrent callers; the remote fails a bounded number of times, with one
\* failure of each verdict of the classifier
GateFailures ==
    { MkErr("ConnectError", 0, NoBody),
      MkErr("HTTPStatusError", 400, [parsable |-> TRUE, type |-> "invalid_request_error"]),
      MkErr("HTTPStatusError", 500, NoBody) }

\* the same prompt and max_tokens, supplied in either order
GatePayloads == {PromptFirst, TokensFirst}

Next ==
    \E c \in Calls :
        \/ \E p \in GatePayloads : Start(c, p, FALSE, None)
        \/ Admit(c)
        \/ Succeed(c)
        \/ \E err \in GateFailures : Fail(c, err, calls[c].delay_s)
        \/ Wake(c)

Spec == Init /\ [][Next]_vars

\* the round trip of call c ends, one way or the other
Complete(c) ==
    \/ Succeed(c)
    \/ \E err \in GateFailures : Fail(c, err, calls[c].delay_s)

\* the event loop runs every task that is ready: a woken waiter takes its
\* slot, a sleep ends; and every round trip ends
Fairness ==
    \A c \in Calls :
        WF_vars(Admit(c)) /\ WF_vars(Complete(c)) /\ WF_vars(Wake(c))

\* callers of a client with a gate, all sending the same request
InitFair == Init /\ Gated

NextFair ==
    \E c \in Calls :
        \/ Start(c, PromptFirst, FALSE, None)
        \/ Admit(c)
        \/ Succeed(c)
        \/ \E err \in GateFailures : Fail(c, err, calls[c].delay_s)
        \/ Wake(c)

SpecFair == InitFair /\ [][NextFair]_vars /\ Fairness

\* two callers; every request with or without JSON mode and timeout
Timeouts == {None, 30}

NextMode ==
    \E c \in {1, 2} :
        \/ \E p \in Payloads : \E m \in BOOLEAN : \E t \in Timeouts : Start(c, p, m, t)
        \/ Admit(c)
        \/ Succeed(c)
        \/ \E err \in GateFailures : Fail(c, err, calls[c].delay_s)
        \/ Wake(c)

SpecMode == Init /\ [][NextMode]_vars

\* one caller against a remote that may fail every attempt in any way
InitRetry == InitClient /\ max_concurrent \in {None, 1} /\ budget = max_tries

NextRetry ==
    \/ \E p \in Payloads : Start(1, p, FALSE, None)
    \/ Succeed(1)
    \/ \E err \in Failures : \E j \in Jittered(calls[1].delay_s) : Fail(1, err, j)
    \/ Wake(1)

SpecRetry == InitRetry /\ [][NextRetry]_vars

\* ------------------------------------------------------------------------
\* Properties of the gate and the cache, checked under Spec
\* ------------------------------------------------------------------------
InFlight == {c \in Calls : calls[c].pc = "flight"}

\* round trips call d has finished, with any outcome
Completed(d) == calls[d].dispatches - (IF calls[d].pc = "flight" THEN 1 ELSE 0)

\* C1: with max_concurrent = N at most N attempts are in flight in every
\* reachable state, and a call that had to queue at the gate is in flight only
\* after another call has completed an attempt.
C1_ConcurrencyBound ==
    Gated =>
        /\ Cardinality(InFlight) <= max_concurrent
        /\ \A c \in Calls :
              calls[c].waited /\ calls[c].pc = "flight"
                  => \E d \in Calls \ {c} : Completed(d) >= 1

\* N attempts in flight, one of them by a call that queued behind the others
C1_Witness ==
    /\ Gated
    /\ Cardinality(InFlight) = max_concurrent
    /\ \E c \in InFlight : calls[c].waited

\* the calls with the key of c that had stored a response when c began
Writers(c) ==
    {d \in calls[c].before : calls[d].key = calls[c].key /\ calls[d].stored_at > 0}

LastWriter(c) ==
    CHOOSE d \in Writers(c) : \A e \in Writers(c) : calls[e].stored_at <= calls[d].stored_at

\* C2 as stated: a call begun after a call with the same payload succeeded
\* returns the value that call returned, with no dispatch and no slot.
C2_Original ==
    cache_enabled =>
        \A c \in Calls : \A d \in calls[c].before :
            (calls[c].pc # "idle" /\ calls[d].kwargs = calls[c].kwargs)
                => /\ calls[c].pc = "ok"
                   /\ calls[c].result = calls[d].result
                   /\ calls[c].dispatches = 0
                   /\ ~calls[c].waited /\ c \notin holders

\* C2 amended: a call begun after a call with the same key stored its response
\* returns at once, with no dispatch, no sleep and no slot, the response that
\* was stored last under that key (last write wins among racing calls).
C2_CacheHit ==
    cache_enabled =>
        \A c \in Calls :
            (calls[c].pc # "idle" /\ Writers(c) # {})
                => /\ calls[c].pc = "ok" /\ calls[c].from_cache
                   /\ calls[c].result = calls[LastWriter(c)].result
                   /\ calls[c].dispatches = 0 /\ calls[c].sleeps = 0
                   /\ ~calls[c].waited /\ c \notin holders

\* a hit while every slot of the gate is held by other calls
C2_Witness ==
    /\ cache_enabled /\ Gated /\ _value = 0
    /\ Cardinality(holders) = max_concurrent
    /\ \E c \in Calls : Writers(c) # {} /\ calls[c].pc = "ok" /\ calls[c].from_cache

C9_SlotOnlyInFlight ==
    /\ \A c \in holders : calls[c].pc = "flight"
    /\ Gated => /\ holders = InFlight
                /\ max_concurrent - _value = Cardinality(holders)
                /\ (InFlight = {} => _value = max_concurrent)

\* one call sleeps after a failed attempt while another one holds a slot
C9_Witness ==
    /\ Gated
    /\ \E c, d \in Calls :
          calls[c].pc = "sleep" /\ calls[c].dispatches >= 1 /\ d \in holders

\* C10 as stated: a call begun after a call with the same fields succeeded has
\* the same cache key, whatever the order of the fields, and is a cache hit.
C10_Original ==
    cache_enabled =>
        \A c \in Calls : \A d \in calls[c].before :
            (calls[c].pc # "idle" /\ SameFields(calls[c].kwargs, calls[d].kwargs))
                => /\ calls[c].key = calls[d].key
                   /\ calls[c].pc = "ok" /\ calls[c].from_cache
                   /\ calls[c].dispatches = 0

\* ------------------------------------------------------------------------
\* Properties of the retry loop and the classifier, checked under SpecRetry
\* ------------------------------------------------------------------------

\* the failures section 7 of the specification calls transient
Transient(err) ==
    \/ err.kind \in {"ConnectError", "TimeoutException", "ReadError", "Exception"}
    \/ /\ err.kind = "HTTPStatusError"
       /\ err.status \notin {400, 404, 415} \/ err.type = "idempotency_error"

\* a 400/404/415 response without the idempotency marker
FatalResponse(err) ==
    /\ err.kind = "HTTPStatusError"
    /\ err.status \in {400, 404, 415}
    /\ err.type # "idempotency_error"

\* C4 as stated: whenever make_request raises, the caller gets the failure of
\* the last attempt itself.
C4_Original ==
    \A c \in Calls : calls[c].pc = "raised" => calls[c].raised = calls[c].err

\* C5 as stated: a transient failure ends the call only on the final
\* permitted attempt; on every earlier attempt it is followed by a retry.
C5_Original ==
    \A c \in Calls :
        (calls[c].pc = "raised" /\ Transient(calls[c].err))
            => calls[c].i = max_tries - 1

\* C6: after an attempt got a 400/404/415 response without the idempotency
\* marker the call has failed: that attempt, whatever its number i, is the
\* last dispatch, and no sleep follows it.
C6_FatalShortCircuit ==
    \A c \in Calls :
        FatalResponse(calls[c].err)
            => /\ calls[c].pc = "raised"
               /\ calls[c].dispatches = calls[c].i + 1
               /\ calls[c].sleeps = calls[c].i

\* a fatal response on a retry attempt
C6_Witness ==
    \E c \in Calls :
        FatalResponse(calls[c].err) /\ calls[c].pc = "raised" /\ calls[c].i >= 1

\* C7 as stated: a call that fails on transient failures only has made
\* max_tries attempts and max_tries - 1 sleeps and raises the last failure.
C7_Original ==
    \A c \in Calls :
        (calls[c].pc = "raised" /\ Transient(calls[c].err))
            => /\ calls[c].dispatches = max_tries
               /\ calls[c].sleeps = max_tries - 1
               /\ calls[c].raised = calls[c].err

Min(a, b) == IF a <= b THEN a ELSE b

\* min(1.0 * 2^k, 10.0) in milliseconds; 2^k is above 10 from k = 4 on, and
\* the test on k keeps 2^k a machine integer
Nominal(k) == IF k < 10 THEN Min(1000 * 2^k, 10000) ELSE 10000

Within20(j, d) == 8 * d <= 10 * j /\ 10 * j <= 12 * d

\* the step in which call c starts the sleep after a failed attempt
StartsSleep(c) == calls[c].pc = "flight" /\ calls'[c].pc = "sleep"

\* C8 as stated: the delay slept after failed attempt k is within 20% of
\* min(1.0 * 2^k, 10.0) s and not shorter than the delay slept before it.
C8_Original ==
    [][\A c \in Calls :
          StartsSleep(c)
              => /\ Within20(calls'[c].slept, Nominal(calls[c].i))
                 /\ calls'[c].slept >= calls[c].slept]_vars

\* C8 amended: the delay before jitter is min(1.0 * 2^k, 10.0) s after failed
\* attempt k and never decreases, and the delay slept is within 20% of it; the
\* delays slept themselves may decrease.
C8_BackoffShape ==
    [][\A c \in Calls :
          /\ StartsSleep(c)
                => /\ calls[c].delay_s = Nominal(calls[c].i)
                   /\ Within20(calls'[c].slept, Nominal(calls[c].i))
          /\ calls[c].pc = "sleep" => calls'[c].delay_s >= calls[c].delay_s]_vars

\* a sleep at the capped delay that is shorter than the nominal 10 s
C8_Witness ==
    \E c \in Calls :
        /\ calls[c].pc = "sleep" /\ calls[c].i >= 4
        /\ calls[c].delay_s = max_delay_s /\ calls[c].slept < max_delay_s

\* ------------------------------------------------------------------------
\* Properties of what is stored and what is posted
\* ------------------------------------------------------------------------

\* the step in which an attempt of call c ends in a failure
AttemptFails(c) == calls[c].pc = "flight" /\ calls'[c].pc \in {"sleep", "raised"}

\* C11: every cache entry is the body of a 2xx response some call received for
\* a request with that key, and a step in which an attempt fails leaves the
\* cache as it was.
C11_CachedOnlyOnSuccess ==
    /\ [](\A k \in Keys :
            _cache[k] # NoEntry
                => /\ cache_enabled
                   /\ \E c \in Calls :
                        /\ calls[c].pc = "ok" /\ ~calls[c].from_cache
                        /\ calls[c].key = k /\ calls[c].result = _cache[k])
    /\ [][(\E c \in Calls : AttemptFails(c)) => _cache' = _cache]_vars

\* an entry is in the cache and an attempt on the same key has failed
C11_Witness ==
    \E c, d \in Calls :
        /\ calls[c].stored_at > 0 /\ _cache[calls[c].key] # NoEntry
        /\ calls[d].key = calls[c].key /\ calls[d].err # NoErr

\* C12: the url of every dispatch of a call, first attempt or retry, is the
\* chat endpoint when the caller's fields include messages and the completion
\* endpoint otherwise.
C12_EndpointRouting ==
    \A c \in Calls :
        (calls[c].pc \in {"flight", "sleep", "raised"}
            \/ (calls[c].pc = "ok" /\ ~calls[c].from_cache))
            => calls[c].url = IF \E n \in DOMAIN calls[c].payload :
                                    calls[c].payload[n][1] = "messages"
                              THEN "/chat/completions" ELSE "/completions"

\* a retry of a chat request is in flight
C12_Witness ==
    \E c \in Calls :
        /\ calls[c].pc = "flight" /\ calls[c].i >= 1
        /\ calls[c].payload = ChatFields /\ calls[c].url = "/chat/completions"

\* the calls that stored a response under key k
Stored(k) == {c \in Calls : calls[c].stored_at > 0 /\ calls[c].key = k}

\* C13: the entry of a key is the response of the call that stored last under
\* it, and a call in flight can always complete and store, whatever the
\* other calls have stored.
C13_LastWriteWins ==
    cache_enabled =>
        /\ \A k \in Keys : \A c \in Stored(k) :
              (\A d \in Stored(k) : calls[d].stored_at <= calls[c].stored_at)
                  => _cache[k] = calls[c].result
        /\ \A c \in Calls : calls[c].pc = "flight" => ENABLED Succeed(c)

\* two calls missed on the same key in their first attempt and both stored
C13_Witness ==
    \E c, d \in Calls :
        /\ c # d /\ calls[c].key = calls[d].key
        /\ calls[c].i = 0 /\ calls[d].i = 0
        /\ calls[c].stored_at > 0 /\ calls[d].stored_at > calls[c].stored_at
        /\ _cache[calls[d].key] = calls[d].result
        /\ calls[c].result # calls[d].result

\* ------------------------------------------------------------------------
\* Progress, checked under SpecFair
\* ------------------------------------------------------------------------

\* C14: a call queued at the gate is eventually in flight, also while other
\* calls fail and retry through the same gate.
C14_GateLiveness ==
    \A c \in Calls : (calls[c].pc = "wait") ~> (calls[c].pc = "flight")

\* a call that queued is in flight after another call failed an attempt, slept
\* and came back to the gate
C14_Witness ==
    \E c, d \in Calls :
        /\ c # d /\ calls[c].waited /\ calls[c].pc = "flight"
        /\ calls[d].sleeps >= 1 /\ calls[d].pc = "wait"

\* C15 as stated: a call ends only by a response, by a verdict of the
\* classifier not to retry, or on the last of max_tries attempts, and never
\* makes more than max_tries attempts.
C15_Original ==
    \A c \in Calls :
        /\ calls[c].i < max_tries
        /\ calls[c].pc = "raised"
              => is_api_error(calls[c].err) = "False" \/ calls[c].i = max_tries - 1

\* ------------------------------------------------------------------------
\* The cache key and the arguments of the call, checked under SpecMode
\* ------------------------------------------------------------------------

\* C16: in every attempt the key looked up and stored under is the
\* serialization of the caller's fields alone; what attempt k posted, with the
\* model name and the response format, is not in the key of attempt k+1, and
\* every key in the cache is the key of some caller's fields.
C16_KeyFromPayloadOnly ==
    /\ \A c \in Calls :
          /\ calls[c].pc # "idle" => calls[c].key = orjson_dumps(calls[c].payload)
          /\ calls[c].pc = "flight"
                => /\ \E n \in DOMAIN calls[c].sent : calls[c].sent[n][1] = "model"
                   /\ calls[c].key # orjson_dumps(calls[c].sent)
          /\ calls[c].stored_at > 0 => _cache[orjson_dumps(calls[c].payload)] # NoEntry
    /\ \A k \in Keys :
          _cache[k] # NoEntry => \E c \in Calls : k = orjson_dumps(calls[c].payload)

\* a call in JSON mode stored its response on a retry attempt
C16_Witness ==
    \E c \in Calls :
        /\ calls[c].i >= 1 /\ calls[c].json_mode /\ calls[c].stored_at > 0
        /\ calls[c].sent = Inject(calls[c].payload, TRUE)

\* C17: a call begun after a call with the same fields stored its response is
\* a cache hit with the same key and no dispatch, whatever the JSON mode and
\* the timeout of the two calls.
C17_KeyIgnoresMode ==
    cache_enabled =>
        \A c \in Calls : \A d \in calls[c].before :
            (calls[c].pc # "idle" /\ calls[d].stored_at > 0
                /\ calls[d].payload = calls[c].payload)
                => /\ calls[c].key = calls[d].key
                   /\ calls[c].pc = "ok" /\ calls[c].from_cache
                   /\ calls[c].dispatches = 0
                   /\ calls[c].result = calls[LastWriter(c)].result

\* a hit in JSON mode with a timeout on a response stored without either
C17_Witness ==
    \E c, d \in Calls :
        /\ d \in calls[c].before /\ calls[d].stored_at > 0
        /\ ~calls[d].json_mode /\ calls[d].timeout_seconds = None
        /\ calls[c].json_mode /\ calls[c].timeout_seconds # None
        /\ calls[c].from_cache /\ calls[c].result = calls[d].result

\* ------------------------------------------------------------------------
\* The backoff state of concurrent calls, checked under Spec
\* ------------------------------------------------------------------------

\* C18: the delay of a call is min(1.0 * 2^i, 10.0) s for its own attempt
\* number i, whatever the other calls did; i and delay_s of a call change only
\* when that call itself ends a sleep, by one attempt; a call starts at
\* attempt 0 with the initial delay.
C18_BackoffPerCall ==
    /\ [](\A c \in Calls :
            /\ calls[c].delay_s = Nominal(calls[c].i)
            /\ calls[c].i = calls[c].sleeps - (IF calls[c].pc = "sleep" THEN 1 ELSE 0))
    /\ [][\A c \in Calls :
            (calls'[c].i # calls[c].i \/ calls'[c].delay_s # calls[c].delay_s)
                => /\ calls[c].pc = "sleep"
                   /\ calls'[c].i = calls[c].i + 1]_vars

\* a call begun after another call had backed off and finished is at
\* attempt 0 with the initial delay
C18_Witness ==
    \E c, d \in Calls :
        /\ c \in calls[d].before /\ calls[c].i >= 1
        /\ calls[c].delay_s > init_delay_s
        /\ calls[d].pc = "flight" /\ calls[d].i = 0
        /\ calls[d].delay_s = init_delay_s

====
